---------------------------- MODULE Spec2Model ----------------------------
(***************************************************************************)
(* ed25519consensus: ZIP215 single verification (ed25519.go) and batch     *)
(* verification (BatchVerifier, and the Verifier that counts its entries). *)
(*                                                                         *)
(* Scaling.  A 32-byte block (a point encoding, a scalar encoding, a seed) *)
(* is a BlockBits-bit little-endian integer instead of a 256-bit one.  The *)
(* curve group E(F_p), cyclic of order 8*l, is the cyclic group of order   *)
(* 8*GroupOrder written additively as 0..8*GroupOrder-1; the base point is *)
(* an element of order GroupOrder.  As for the real curve,                 *)
(*     2^(BlockBits-4) < GroupOrder < 2^(BlockBits-3),                     *)
(* so a scalar encoding with its top three bits clear may still be         *)
(* non-canonical.  SHA-512 is a fixed mixing function of the input blocks. *)
(*                                                                         *)
(* A byte string is a record [len, lo, hi]: its length in bytes, the value *)
(* of bytes [0:32] and the value of bytes [32:64].                         *)
(***************************************************************************)
EXTENDS Integers, Sequences, FiniteSets, TLC

\* ------------------------------------------------------------------ sizes
PublicKeySize == 32
SignatureSize == 64
PrivateKeySize == 64
SeedSize == 32

\* scaled width of a 32-byte block, and the scaled group order l
BlockBits == 6
GroupOrder == 5
Cofactor == 8

BlockMod == 2 ^ BlockBits
CurveOrder == Cofactor * GroupOrder

Bytes(n, x, y) == [len |-> n, lo |-> x, hi |-> y]
EmptyBytes == Bytes(0, 0, 0)

\* ------------------------------------------------- edwards25519: points
\* edwards25519.NewIdentityPoint, NewGeneratorPoint
IdentityPoint == 0
GeneratorPoint == Cofactor

PointAdd(P, Q) == (P + Q) % CurveOrder
PointNegate(P) == (CurveOrder - P) % CurveOrder
PointSubtract(P, Q) == PointAdd(P, PointNegate(Q))
ScalarMult(s, P) == (s * P) % CurveOrder
\* mutant: the cofactor is not cleared
MultByCofactorNone(P) == P
MultByCofactor(P) == ScalarMult(Cofactor, P)
PointEqual(P, Q) == IF P = Q THEN 1 ELSE 0

\* Point.SetBytes: the relaxed (ZIP215) decoding.  Encodings below
\* CurveOrder are canonical; the NonCanonical encodings above them are
\* accepted and name the point NonCanonical lower (as y >= p names y - p);
\* every other block is not the encoding of a point.
NonCanonical == 4
PointErr == -1
\* mutant: every block decodes to a point
PointSetBytesWrap(x) == x % CurveOrder
PointSetBytes(x) ==
    IF x < CurveOrder THEN x
    ELSE IF x < CurveOrder + NonCanonical THEN x - CurveOrder
    ELSE PointErr

\* Point.Bytes: the canonical encoding
PointBytes(P) == P

\* ------------------------------------------------ edwards25519: scalars
ScalarErr == -1
\* Scalar.SetCanonicalBytes: rejects an encoding >= l
\* mutant: a non-canonical encoding is reduced, not rejected
SetCanonicalBytesReduce(x) == x % GroupOrder
SetCanonicalBytes(x) == IF x < GroupOrder THEN x ELSE ScalarErr
\* Scalar.SetUniformBytes: reduces a 64-byte digest mod l
SetUniformBytes(d) == d % GroupOrder
\* Scalar.SetBytesWithClamping: clear the low three bits and the top bit,
\* set the second highest bit, reduce mod l
SetBytesWithClamping(x) ==
    LET low == x % (2 ^ (BlockBits - 2))
        cleared == low - (low % 8)
    IN  (cleared + 2 ^ (BlockBits - 2)) % GroupOrder
\* mutant: the operands in another order
ScalarMultiplyAddSwapped(x, y, z) == (x * z + y) % GroupOrder
ScalarMultiplyAdd(x, y, z) == (x * y + z) % GroupOrder
\* mutant: the sum in place of the product
ScalarMultiplySum(x, y) == (x + y) % GroupOrder
ScalarMultiply(x, y) == (x * y) % GroupOrder
\* mutant: the scalar is not negated
ScalarNegateNone(x) == x
ScalarNegate(x) == (GroupOrder - x) % GroupOrder

\* ---------------------------------------------------------------- sha512
\* A digest is a 64-byte value, here 0..DigestMod-1.
DigestMod == 4093
RECURSIVE Sha512(_)
Sha512(blocks) ==
    IF blocks = <<>> THEN 17
    ELSE LET h == Sha512(SubSeq(blocks, 1, Len(blocks) - 1))
             b == blocks[Len(blocks)]
         IN  (h * h + 67 * h + 29 * b * b + 31 * b + 11) % DigestMod

\* the blocks a byte string contributes to a hash
Blocks(b) == <<b.len, b.lo, b.hi>>

\* digest[:32] and digest[32:]
DigestLo(d) == d % BlockMod
DigestHi(d) == d \div BlockMod

\* -------------------------------------------------------------- ed25519.go
\* sig[63]&224: the top three bits of the last byte of a 64-byte string
\* mutant: sig[63]&192, the top two bits only
HighBitsTopTwo(sig) == sig.hi \div (2 ^ (BlockBits - 2))
HighBits(sig) == sig.hi \div (2 ^ (BlockBits - 3))

\* the digest of sig[:32] || publicKey || message
Challenge(publicKey, sig, message) ==
    SetUniformBytes(Sha512(<<sig.lo, publicKey.lo>> \o Blocks(message)))

\* Point.VarTimeDoubleScalarBaseMult(a, A, b) = [a]A + [b]B
VarTimeDoubleScalarBaseMult(a, A, b) ==
    PointAdd(ScalarMult(a, A), ScalarMult(b, GeneratorPoint))

Verify(publicKey, message, sig) ==
    IF publicKey.len # PublicKeySize THEN FALSE
    ELSE IF sig.len # SignatureSize \/ HighBits(sig) # 0 THEN FALSE
    ELSE IF PointSetBytes(publicKey.lo) = PointErr THEN FALSE
    ELSE LET A == PointNegate(PointSetBytes(publicKey.lo))
             hReduced == Challenge(publicKey, sig, message)
             checkR == PointSetBytes(sig.lo)
             s == SetCanonicalBytes(sig.hi)
         IN  IF checkR = PointErr THEN FALSE
             ELSE IF s = ScalarErr THEN FALSE
             ELSE LET R == VarTimeDoubleScalarBaseMult(hReduced, A, s)
                      p == MultByCofactor(PointSubtract(R, checkR))
                  IN  PointEqual(p, IdentityPoint) = 1

\* sign: the signature bytes, or the panic for a private key of the wrong
\* length
Panic == [panic |-> "ed25519: bad private key length"]
Sign(privateKey, message) ==
    IF privateKey.len # PrivateKeySize THEN Panic
    ELSE LET seed == privateKey.lo
             publicKey == privateKey.hi
             h == Sha512(<<seed>>)
             s == SetBytesWithClamping(DigestLo(h))
             prefix == DigestHi(h)
             r == SetUniformBytes(Sha512(<<prefix>> \o Blocks(message)))
             R == ScalarMult(r, GeneratorPoint)
             k == SetUniformBytes(
                      Sha512(<<PointBytes(R), publicKey>> \o Blocks(message)))
             S == ScalarMultiplyAdd(k, s, r)
         IN  Bytes(SignatureSize, PointBytes(R), S)

\* crypto/ed25519 GenerateKey: the private key seed || publicKey of a seed
NewKeyFromSeed(seed) ==
    LET s == SetBytesWithClamping(DigestLo(Sha512(<<seed>>)))
    IN  Bytes(PrivateKeySize, seed, PointBytes(ScalarMult(s, GeneratorPoint)))
\* the public half of a private key
Public(privateKey) == Bytes(PublicKeySize, privateKey.hi, 0)

\* ------------------------------------------------------- BatchVerifier
\* bounds of the model
MaxEntries == 2
NumSeeds == 2

VARIABLES
    entries,    \* BatchVerifier.entries: sequence of ks {pubkey, signature, k}
    msgs,       \* history: the message each pending entry was added with
    fresh,      \* history: number of entries added since the last VerifyBatch
    prev,       \* history: what the previous VerifyBatch call returned
    tampered,   \* history: index of the entry the test harness overwrote, or 0
    last,       \* the last call: its operation, arguments and return value
    batchSize   \* Verifier.batchSize; NoBatchSize in a BatchVerifier

vars == <<entries, msgs, fresh, prev, tampered, last, batchSize>>

\* a BatchVerifier has no field batchSize
NoBatchSize == -1

\* ks
Ks(publicKey, sig, k) == [pubkey |-> publicKey, signature |-> sig, k |-> k]

\* NewBatchVerifier
Init ==
    /\ entries = <<>>
    /\ msgs = <<>>
    /\ fresh = 0
    /\ prev = "none"
    /\ tampered = 0
    /\ last = [op |-> "NewBatchVerifier"]
    /\ batchSize = NoBatchSize

\* BatchVerifier.Add(publicKey, sig, message)
\* mutant: the length of the key is not checked
AddAcceptsAnyKey(publicKey, sig) ==
    ~(sig.len # SignatureSize \/ HighBits(sig) # 0)
AddAccepts(publicKey, sig) ==
    /\ publicKey.len = PublicKeySize
    /\ ~(sig.len # SignatureSize \/ HighBits(sig) # 0)

Add(publicKey, sig, message) ==
    IF ~AddAccepts(publicKey, sig)
    THEN /\ last' = [op |-> "Add", publicKey |-> publicKey, sig |-> sig,
                     message |-> message, ret |-> FALSE]
         /\ UNCHANGED <<entries, msgs, fresh, prev, tampered, batchSize>>
    ELSE /\ Len(entries) < MaxEntries
         /\ entries' = Append(entries,
                          Ks(publicKey, sig, Challenge(publicKey, sig, message)))
         /\ msgs' = Append(msgs, message)
         /\ fresh' = fresh + 1
         /\ last' = [op |-> "Add", publicKey |-> publicKey, sig |-> sig,
                     message |-> message, ret |-> TRUE]
         /\ UNCHANGED <<prev, tampered, batchSize>>

\* rand.Read(buf[:16]): the values a 32-byte buffer with 16 random bytes holds
RandBits == 2
RandScalars == 0 .. (2 ^ RandBits - 1)

\* Point.VarTimeMultiScalarMult(scalars, points)
RECURSIVE VarTimeMultiScalarMult(_, _)
VarTimeMultiScalarMult(scalars, points) ==
    IF scalars = <<>> THEN IdentityPoint
    ELSE PointAdd(ScalarMult(Head(scalars), Head(points)),
                  VarTimeMultiScalarMult(Tail(scalars), Tail(points)))

\* mutant: an entry whose R or key bytes do not decode is skipped
RECURSIVE BatchLoopSkip(_, _, _, _)
BatchLoopSkip(es, zs, i, acc) ==
    IF i > Len(es) THEN acc
    ELSE LET entry == es[i]
             R == PointSetBytes(entry.signature.lo)
             A == PointSetBytes(entry.pubkey.lo)
             z == SetCanonicalBytes(zs[i])
             s == SetCanonicalBytes(entry.signature.hi)
         IN  IF R = PointErr \/ A = PointErr
             THEN BatchLoopSkip(es, zs, i + 1, acc)
             ELSE IF z = ScalarErr \/ s = ScalarErr
                  THEN [acc EXCEPT !.ok = FALSE, !.drawn = i]
             ELSE BatchLoopSkip(es, zs, i + 1,
                     [ok |-> TRUE,
                      drawn |-> i,
                      Bcoeff |-> ScalarMultiplyAdd(z, s, acc.Bcoeff),
                      Rs |-> Append(acc.Rs, R),
                      As |-> Append(acc.As, A),
                      Rcoeffs |-> Append(acc.Rcoeffs, z),
                      Acoeffs |-> Append(acc.Acoeffs,
                                         ScalarMultiply(z, entry.k))])

\* The loop of VerifyBatch over v.entries, from entry i on.  acc holds
\* Bcoeff, Rs, As, Rcoeffs, Acoeffs as filled so far and the number of
\* random scalars drawn; ok = FALSE is the early "return false" of a failed
\* decoding.
RECURSIVE BatchLoop(_, _, _, _)
BatchLoop(es, zs, i, acc) ==
    IF i > Len(es) THEN acc
    ELSE LET entry == es[i]
             R == PointSetBytes(entry.signature.lo)
             A == PointSetBytes(entry.pubkey.lo)
             z == SetCanonicalBytes(zs[i])
             s == SetCanonicalBytes(entry.signature.hi)
         IN  IF R = PointErr THEN [acc EXCEPT !.ok = FALSE]
             ELSE IF A = PointErr THEN [acc EXCEPT !.ok = FALSE]
             ELSE IF z = ScalarErr
                  THEN [acc EXCEPT !.ok = FALSE, !.drawn = i]
             ELSE IF s = ScalarErr
                  THEN [acc EXCEPT !.ok = FALSE, !.drawn = i]
             ELSE BatchLoop(es, zs, i + 1,
                     [ok |-> TRUE,
                      drawn |-> i,
                      Bcoeff |-> ScalarMultiplyAdd(z, s, acc.Bcoeff),
                      Rs |-> Append(acc.Rs, R),
                      As |-> Append(acc.As, A),
                      Rcoeffs |-> Append(acc.Rcoeffs, z),
                      Acoeffs |-> Append(acc.Acoeffs,
                                         ScalarMultiply(z, entry.k))])

\* mutant: the early return of a failed decoding returns true
BatchFinishEarlyTrue(loop) ==
    IF ~loop.ok
    THEN [purge |-> FALSE, ret |-> TRUE, drawn |-> loop.drawn]
    ELSE LET scalars == <<ScalarNegate(loop.Bcoeff)>>
                            \o loop.Rcoeffs \o loop.Acoeffs
             points == <<GeneratorPoint>> \o loop.Rs \o loop.As
             check == MultByCofactor(VarTimeMultiScalarMult(scalars, points))
         IN  [purge |-> TRUE,
              ret |-> PointEqual(check, IdentityPoint) = 1,
              drawn |-> loop.drawn]

\* VerifyBatch after its loop: the early return, or the purge of the
\* entries and the check of the equation
BatchFinish(loop) ==
    IF ~loop.ok
    THEN [purge |-> FALSE, ret |-> FALSE, drawn |-> loop.drawn]
    ELSE LET scalars == <<ScalarNegate(loop.Bcoeff)>>
                            \o loop.Rcoeffs \o loop.Acoeffs
             points == <<GeneratorPoint>> \o loop.Rs \o loop.As
             check == MultByCofactor(VarTimeMultiScalarMult(scalars, points))
         IN  [purge |-> TRUE,
              ret |-> PointEqual(check, IdentityPoint) = 1,
              drawn |-> loop.drawn]

\* what VerifyBatch computes from the entries es and the random draws zs:
\* purge = the entries were reset, ret = the value returned, drawn = the
\* number of scalars it drew
BatchResult(es, zs) ==
    BatchFinish(BatchLoop(es, zs, 1,
                    [ok |-> TRUE, drawn |-> 0, Bcoeff |-> 0, Rs |-> <<>>,
                     As |-> <<>>, Rcoeffs |-> <<>>, Acoeffs |-> <<>>]))

\* history: pending entry i is a triple as it was added, and Verify accepts it
EntryValid(i) ==
    /\ Verify(entries[i].pubkey, msgs[i], entries[i].signature)
    /\ entries[i].k
           = Challenge(entries[i].pubkey, entries[i].signature, msgs[i])
AllValid == \A i \in 1 .. Len(entries) : EntryValid(i)

\* BatchVerifier.VerifyBatch(); zs are the scalars rand.Read yields.  The
\* record of the call keeps, besides the value returned, what the batch
\* was: its size, the scalars drawn, how many entries were added since the
\* call before, whether all were valid, which one the tests overwrote.
VerifyBatch(zs) ==
    \E res \in {BatchResult(entries, zs)} :
        /\ last' = [op |-> "VerifyBatch", n |-> Len(entries),
                    zs |-> SubSeq(zs, 1, res.drawn), ret |-> res.ret,
                    fresh |-> fresh, valid |-> AllValid,
                    tampered |-> tampered]
        /\ entries' = IF res.purge THEN <<>> ELSE entries
        /\ msgs' = IF res.purge THEN <<>> ELSE msgs
        /\ tampered' = IF res.purge THEN 0 ELSE tampered
        /\ fresh' = 0
        /\ prev' = IF res.ret THEN "true" ELSE "false"
        /\ UNCHANGED batchSize

VerifyBatchCall ==
    \E zs \in [1 .. Len(entries) -> RandScalars] : VerifyBatch(zs)

\* ------------------------------------------------------------- the inputs
Seeds == 1 .. NumSeeds
PrivateKeys == {NewKeyFromSeed(seed) : seed \in Seeds}
\* "easter" and "egg"
Easter == Bytes(6, 1, 0)
Egg == Bytes(3, 2, 0)
Messages == {Easter, Egg}

Triple(publicKey, message, sig) ==
    [publicKey |-> publicKey, message |-> message, sig |-> sig]
\* what populateBatchVerifier adds: a key, a message, its signature
SignedBy(priv, m) == Triple(Public(priv), m, Sign(priv, m))
Signed == {SignedBy(priv, m) : priv \in PrivateKeys, m \in Messages}
\* relatives of one signed triple that Add accepts and Verify rejects:
\* another message, s + l, an R and a key that are no point encodings
Base == SignedBy(NewKeyFromSeed(1), Easter)
Invalid ==
    { [Base EXCEPT !.message = Egg],
      [Base EXCEPT !.sig.hi = @ + GroupOrder],
      [Base EXCEPT !.sig.lo = BlockMod - 1],
      [Base EXCEPT !.publicKey.lo = BlockMod - 1] }
\* the short signature of TestBatchFailsOnShortSig
ShortSig == [Base EXCEPT !.sig = EmptyBytes]
\* relatives of it that fail the length and format checks
Malformed ==
    { ShortSig,
      [Base EXCEPT !.sig.len = SignatureSize + 1],
      [Base EXCEPT !.sig.hi = @ + 2 ^ (BlockBits - 3)],
      [Base EXCEPT !.sig.hi = @ + 2 ^ (BlockBits - 2)],
      [Base EXCEPT !.sig.hi = @ + 2 ^ (BlockBits - 1)],
      [Base EXCEPT !.publicKey = EmptyBytes],
      [Base EXCEPT !.publicKey.len = PublicKeySize - 1],
      [Base EXCEPT !.publicKey.len = PublicKeySize + 1] }
\* a signed triple whose message is 64 bytes long
LongMessage == Bytes(64, 3, 1)
SignedLong == SignedBy(NewKeyFromSeed(1), LongMessage)

\* ------------------------------------- a verifier in use: Add, VerifyBatch
\* a caller passing (publicKey, sig, message), the order of Add's parameters
AddCall ==
    \E t \in Signed \cup Invalid \cup {ShortSig} :
        Add(t.publicKey, t.sig, t.message)

Next ==
    \/ AddCall
    \/ VerifyBatchCall

Spec == Init /\ [][Next]_vars

\* ------------------------------------------------- Add and its arguments
AddAnyCall ==
    \E t \in Signed \cup Invalid \cup Malformed \cup {SignedLong} :
        Add(t.publicKey, t.sig, t.message)
\* a caller passing (publicKey, message, signature), as the tests do
AddCallAsTests ==
    \E t \in Signed \cup {SignedLong} : Add(t.publicKey, t.message, t.sig)

NextAdd ==
    \/ AddAnyCall
    \/ AddCallAsTests

SpecAdd == Init /\ [][NextAdd]_vars

\* ------------------------------------------------------------- the tests
\* A byte of a block is ByteBits bits wide; the last byte of a signature
\* is the top ByteBits bits of its second block.
ByteBits == 3
\* the values b ^= mask gives a byte: mask ranges over the non-zero bytes
ByteMasks == 1 .. (2 ^ ByteBits - 1)
RECURSIVE BitXor(_, _)
BitXor(x, m) ==
    IF x = 0 THEN m
    ELSE IF m = 0 THEN x
    ELSE 2 * BitXor(x \div 2, m \div 2) + ((x + m) % 2)
\* block[b] ^= mask
XorByte(block, b, mask) == BitXor(block, mask * 2 ^ (ByteBits * b))
BlockBytes == 0 .. (BlockBits \div ByteBits - 1)

\* The tests overwrite one entry of a populated verifier in place:
\* v.entries[1].pubkey[1] ^= 1
CorruptKey(i, b, mask) ==
    /\ entries' = [entries EXCEPT ![i].pubkey.lo = XorByte(@, b, mask)]
    /\ tampered' = i
    /\ last' = [op |-> "CorruptKey", i |-> i]
    /\ UNCHANGED <<msgs, fresh, prev, batchSize>>

\* v.entries[4].signature[1] ^= 1, for a byte of either half
CorruptSignature(i, half, b, mask) ==
    /\ entries' = IF half = 0
                  THEN [entries EXCEPT ![i].signature.lo = XorByte(@, b, mask)]
                  ELSE [entries EXCEPT ![i].signature.hi = XorByte(@, b, mask)]
    /\ tampered' = i
    /\ last' = [op |-> "CorruptSignature", i |-> i]
    /\ UNCHANGED <<msgs, fresh, prev, batchSize>>

\* "negate a scalar": the stored challenge k becomes -k
NegateK(i) ==
    /\ entries' = [entries EXCEPT ![i].k = ScalarNegate(@)]
    /\ tampered' = i
    /\ last' = [op |-> "NegateK", i |-> i]
    /\ UNCHANGED <<msgs, fresh, prev, batchSize>>

\* populateBatchVerifier: valid triples only, into an untouched verifier
Populate ==
    /\ tampered = 0
    /\ prev = "none"
    /\ \E t \in Signed : Add(t.publicKey, t.sig, t.message)

\* one entry of a populated verifier is overwritten
Corrupt ==
    /\ tampered = 0
    /\ AllValid
    /\ \E i \in 1 .. Len(entries) :
           \/ \E b \in BlockBytes, mask \in ByteMasks : CorruptKey(i, b, mask)
           \/ \E half \in {0, 1}, b \in BlockBytes, mask \in ByteMasks :
                  CorruptSignature(i, half, b, mask)
           \/ NegateK(i)

\* *v = NewBatchVerifier()
Renew ==
    /\ prev # "none"
    /\ entries' = <<>>
    /\ msgs' = <<>>
    /\ fresh' = 0
    /\ prev' = "none"
    /\ tampered' = 0
    /\ last' = [op |-> "NewBatchVerifier"]
    /\ UNCHANGED batchSize

NextTests ==
    \/ Populate
    \/ Corrupt
    \/ prev = "none" /\ VerifyBatchCall
    \/ Renew

SpecTests == Init /\ [][NextTests]_vars

\* ------------------------------------------------- the caller's buffers
\* Add stores the slices publicKey and sig themselves (pubkey: publicKey,
\* signature: sig): entry i and the buffers the caller passed to the i-th
\* accepted Add are the same memory.  A write by the caller to its key
\* buffer, keyBuf[b] ^= mask, is therefore a write to entries[i].pubkey.
WriteKeyBuffer(i, b, mask) ==
    /\ entries' = [entries EXCEPT ![i].pubkey.lo = XorByte(@, b, mask)]
    /\ tampered' = i
    /\ last' = [op |-> "WriteBuffer", i |-> i, buffer |-> "publicKey"]
    /\ UNCHANGED <<msgs, fresh, prev, batchSize>>

\* sigBuf[b] ^= mask, for a byte of either half of the signature buffer
WriteSigBuffer(i, half, b, mask) ==
    /\ entries' = IF half = 0
                  THEN [entries EXCEPT ![i].signature.lo = XorByte(@, b, mask)]
                  ELSE [entries EXCEPT ![i].signature.hi = XorByte(@, b, mask)]
    /\ tampered' = i
    /\ last' = [op |-> "WriteBuffer", i |-> i, buffer |-> "sig"]
    /\ UNCHANGED <<msgs, fresh, prev, batchSize>>

\* the caller reuses one of the buffers it passed to an Add that returned true
WriteBuffer ==
    /\ tampered = 0
    /\ \E i \in 1 .. Len(entries) :
           \/ \E b \in BlockBytes, mask \in ByteMasks : WriteKeyBuffer(i, b, mask)
           \/ \E half \in {0, 1}, b \in BlockBytes, mask \in ByteMasks :
                  WriteSigBuffer(i, half, b, mask)

NextBuffers ==
    \/ Populate
    \/ WriteBuffer
    \/ prev = "none" /\ VerifyBatchCall
    \/ Renew

SpecBuffers == Init /\ [][NextBuffers]_vars

\* ---------------------------------------------------------------- Verifier
\* The Verifier keeps, next to its entries, their number in batchSize, a
\* uint32; the width is scaled as the blocks are.
Uint32Bits == 5
Uint32 == 2 ^ Uint32Bits

\* NewVerifier
NewVerifier ==
    /\ entries = <<>>
    /\ msgs = <<>>
    /\ fresh = 0
    /\ prev = "none"
    /\ tampered = 0
    /\ last = [op |-> "NewVerifier"]
    /\ batchSize = 0

\* mutant: the batch size is bumped before the format checks
VerifierAddBumpFirst(publicKey, sig, message) ==
    IF ~AddAccepts(publicKey, sig)
    THEN /\ last' = [op |-> "Verifier.Add", publicKey |-> publicKey,
                     sig |-> sig, message |-> message, ret |-> FALSE]
         /\ batchSize' = (batchSize + 1) % Uint32
         /\ UNCHANGED <<entries, msgs, fresh, prev, tampered>>
    ELSE /\ Len(entries) < MaxEntries
         /\ entries' = Append(entries,
                          Ks(publicKey, sig, Challenge(publicKey, sig, message)))
         /\ batchSize' = (batchSize + 1) % Uint32
         /\ msgs' = Append(msgs, message)
         /\ fresh' = fresh + 1
         /\ last' = [op |-> "Verifier.Add", publicKey |-> publicKey,
                     sig |-> sig, message |-> message, ret |-> TRUE]
         /\ UNCHANGED <<prev, tampered>>

\* Verifier.Add(publicKey, sig, message): the checks of BatchVerifier.Add,
\* then the append and v.batchSize++
VerifierAdd(publicKey, sig, message) ==
    IF ~AddAccepts(publicKey, sig)
    THEN /\ last' = [op |-> "Verifier.Add", publicKey |-> publicKey,
                     sig |-> sig, message |-> message, ret |-> FALSE]
         /\ UNCHANGED <<entries, msgs, fresh, prev, tampered, batchSize>>
    ELSE /\ Len(entries) < MaxEntries
         /\ entries' = Append(entries,
                          Ks(publicKey, sig, Challenge(publicKey, sig, message)))
         /\ batchSize' = (batchSize + 1) % Uint32
         /\ msgs' = Append(msgs, message)
         /\ fresh' = fresh + 1
         /\ last' = [op |-> "Verifier.Add", publicKey |-> publicKey,
                     sig |-> sig, message |-> message, ret |-> TRUE]
         /\ UNCHANGED <<prev, tampered>>

\* make([]..., 1+v.batchSize+v.batchSize): the number of (scalar, point)
\* pairs allocated, in uint32 arithmetic
Pairs(size) == (1 + size + size) % Uint32
\* scalars[1:][:size] and scalars[1+size:] (points alike) panic when the
\* bounds exceed the length allocated
SliceFault(size) ==
    \/ Pairs(size) < 1
    \/ size > Pairs(size) - 1
    \/ (1 + size) % Uint32 > Pairs(size)

\* The loop of Verifier.VerifyBatch over v.entries, from entry i on.  Rs,
\* As, Rcoeffs, Acoeffs are the slices of length size of the arrays
\* allocated; a write at an index beyond them is the panic fault = TRUE.
\* The zero values they start with stand for no term of the equation.
RECURSIVE VerifierBatchLoop(_, _, _, _, _)
VerifierBatchLoop(es, size, zs, i, acc) ==
    IF i > Len(es) THEN acc
    ELSE IF i > size THEN [acc EXCEPT !.ok = FALSE, !.fault = TRUE]
    ELSE LET entry == es[i]
             R == PointSetBytes(entry.signature.lo)
             A == PointSetBytes(entry.pubkey.lo)
             z == SetCanonicalBytes(zs[i])
             s == SetCanonicalBytes(entry.signature.hi)
         IN  IF R = PointErr THEN [acc EXCEPT !.ok = FALSE]
             ELSE IF A = PointErr THEN [acc EXCEPT !.ok = FALSE]
             ELSE IF z = ScalarErr
                  THEN [acc EXCEPT !.ok = FALSE, !.drawn = i]
             ELSE IF s = ScalarErr
                  THEN [acc EXCEPT !.ok = FALSE, !.drawn = i]
             ELSE VerifierBatchLoop(es, size, zs, i + 1,
                     [ok |-> TRUE,
                      fault |-> FALSE,
                      drawn |-> i,
                      Bcoeff |-> ScalarMultiplyAdd(z, s, acc.Bcoeff),
                      Rs |-> [acc.Rs EXCEPT ![i] = R],
                      As |-> [acc.As EXCEPT ![i] = A],
                      Rcoeffs |-> [acc.Rcoeffs EXCEPT ![i] = z],
                      Acoeffs |-> [acc.Acoeffs EXCEPT ![i] =
                                      ScalarMultiply(z, entry.k)]])

\* Verifier.VerifyBatch after its loop: the early return or the panic, or
\* the check of the equation; the entries are left as they are
VerifierBatchFinish(loop) ==
    IF ~loop.ok
    THEN [fault |-> loop.fault, ret |-> FALSE, drawn |-> loop.drawn]
    ELSE LET scalars == <<ScalarNegate(loop.Bcoeff)>>
                            \o loop.Rcoeffs \o loop.Acoeffs
             points == <<GeneratorPoint>> \o loop.Rs \o loop.As
             check == MultByCofactor(VarTimeMultiScalarMult(scalars, points))
         IN  [fault |-> FALSE,
              ret |-> PointEqual(check, IdentityPoint) = 1,
              drawn |-> loop.drawn]

\* what Verifier.VerifyBatch computes from the entries es, the batch size
\* and the random draws zs: fault = it panicked, ret = the value returned
VerifierBatchResult(es, size, zs) ==
    IF SliceFault(size)
    THEN [fault |-> TRUE, ret |-> FALSE, drawn |-> 0]
    ELSE VerifierBatchFinish(VerifierBatchLoop(es, size, zs, 1,
             [ok |-> TRUE, fault |-> FALSE, drawn |-> 0, Bcoeff |-> 0,
              Rs |-> [j \in 1 .. size |-> IdentityPoint],
              As |-> [j \in 1 .. size |-> IdentityPoint],
              Rcoeffs |-> [j \in 1 .. size |-> 0],
              Acoeffs |-> [j \in 1 .. size |-> 0]]))

\* Verifier.VerifyBatch(); the record of the call keeps the number of
\* pending entries, the batch size used and the number of pairs allocated
VerifierVerifyBatch(zs) ==
    \E res \in {VerifierBatchResult(entries, batchSize, zs)} :
        /\ last' = [op |-> "Verifier.VerifyBatch", n |-> Len(entries),
                    size |-> batchSize, pairs |-> Pairs(batchSize),
                    zs |-> SubSeq(zs, 1, res.drawn), ret |-> res.ret,
                    fault |-> res.fault, fresh |-> fresh,
                    valid |-> AllValid]
        /\ fresh' = 0
        /\ prev' = IF res.ret THEN "true" ELSE "false"
        /\ UNCHANGED <<entries, msgs, tampered, batchSize>>

\* a caller passing one signed triple, its relatives that Verify rejects,
\* and the short signature
VerifierAddCall ==
    \E t \in {Base} \cup Invalid \cup {ShortSig} :
        VerifierAdd(t.publicKey, t.sig, t.message)

VerifierVerifyBatchCall ==
    \E zs \in [1 .. Len(entries) -> RandScalars] : VerifierVerifyBatch(zs)

NextVerifier ==
    \/ VerifierAddCall
    \/ VerifierVerifyBatchCall

SpecVerifier == NewVerifier /\ [][NextVerifier]_vars

\* ---------------------------------------------------------- the benchmark
\* BenchmarkVerifyBatch: a verifier of either kind is populated with valid
\* triples, then verified again and again with no Add in between.
InitBench == Init \/ NewVerifier

\* "BatchVerifyTest", signed with each key
BenchMessage == Bytes(15, 4, 0)
Benched == {SignedBy(priv, BenchMessage) : priv \in PrivateKeys}

BenchPopulate ==
    /\ batchSize = NoBatchSize
    /\ prev = "none"
    /\ \E t \in Benched : Add(t.publicKey, t.sig, t.message)

BenchVerify ==
    /\ batchSize = NoBatchSize
    /\ prev = "none" => Len(entries) >= 1
    /\ VerifyBatchCall

VerifierBenchPopulate ==
    /\ batchSize # NoBatchSize
    /\ prev = "none"
    /\ \E t \in Benched : VerifierAdd(t.publicKey, t.sig, t.message)

VerifierBenchVerify ==
    /\ batchSize # NoBatchSize
    /\ Len(entries) >= 1
    /\ VerifierVerifyBatchCall

NextBench ==
    \/ BenchPopulate
    \/ BenchVerify
    \/ VerifierBenchPopulate
    \/ VerifierBenchVerify

SpecBench == InitBench /\ [][NextBench]_vars

\* ------------------------------------------- the order of the Add calls
\* Two BatchVerifiers are given the same triples, one in the order ts and
\* one in a permuted order; each VerifyBatch draws for an entry the scalar
\* that goes with its triple.
\* the permutations of 1 .. n
Perms(n) ==
    {p \in [1 .. n -> 1 .. n] : \A i, j \in 1 .. n : p[i] = p[j] => i = j}
Permuted(seq, p) == [i \in 1 .. Len(seq) |-> seq[p[i]]]

\* v.Add(t.publicKey, t.sig, t.message) for each t of ts in turn: the
\* entries of v after the calls, and with each entry the scalar of its
\* triple
RECURSIVE AddAll(_, _)
AddAll(ts, zs) ==
    IF ts = <<>> THEN [entries |-> <<>>, zs |-> <<>>]
    ELSE LET n == Len(ts)
             v == AddAll(SubSeq(ts, 1, n - 1), SubSeq(zs, 1, n - 1))
             t == ts[n]
         IN  IF ~AddAccepts(t.publicKey, t.sig) THEN v
             ELSE [entries |-> Append(v.entries,
                       Ks(t.publicKey, t.sig,
                          Challenge(t.publicKey, t.sig, t.message))),
                   zs |-> Append(v.zs, zs[n])]

\* the value VerifyBatch returns to a verifier that was given ts
VerifyBatchOf(ts, zs) ==
    LET v == AddAll(ts, zs) IN BatchResult(v.entries, v.zs).ret

\* the triples given: a signed one, a second signed with another key, the
\* relatives Verify rejects, the short signature Add rejects
OrderInputs ==
    {Base, SignedBy(NewKeyFromSeed(2), Egg)} \cup Invalid \cup {ShortSig}

InitOrder ==
    /\ entries = <<>>
    /\ msgs = <<>>
    /\ fresh = 0
    /\ prev = "none"
    /\ tampered = 0
    /\ batchSize = NoBatchSize
    /\ \E n \in 1 .. MaxEntries :
           \E ts \in [1 .. n -> OrderInputs], zs \in [1 .. n -> RandScalars] :
               last = [op |-> "triples", triples |-> ts, zs |-> zs]

\* both verifiers are populated and verified
VerifyOrders(p) ==
    /\ last.op = "triples"
    /\ last' = [op |-> "VerifyOrders", triples |-> last.triples,
                zs |-> last.zs, perm |-> p,
                ret |-> VerifyBatchOf(last.triples, last.zs),
                permuted |-> VerifyBatchOf(Permuted(last.triples, p),
                                           Permuted(last.zs, p))]
    /\ UNCHANGED <<entries, msgs, fresh, prev, tampered, batchSize>>

NextOrder == \E p \in Perms(Len(last.triples)) : VerifyOrders(p)

SpecOrder == InitOrder /\ [][NextOrder]_vars

\* ------------------------------------------------- Verify and Sign alone
\* every value of a 32-byte block
Block == 0 .. (BlockMod - 1)
KeyInputs ==
    {Bytes(PublicKeySize, a, 0) : a \in Block}
    \cup {EmptyBytes, Bytes(PublicKeySize - 1, GeneratorPoint, 0),
          Bytes(PublicKeySize + 1, GeneratorPoint, 0)}
SigInputs ==
    {Bytes(SignatureSize, r, s) : r \in Block, s \in Block}
    \cup {EmptyBytes, Bytes(SignatureSize - 1, GeneratorPoint, 1),
          Bytes(SignatureSize + 1, GeneratorPoint, 1)}
\* the key pairs GenerateKey yields, and a private key that is too short
KeyPairs == {NewKeyFromSeed(seed) : seed \in Block}
ShortPrivateKey == Bytes(SeedSize, 1, 0)

\* the arguments of one call
InitVerify ==
    /\ entries = <<>>
    /\ msgs = <<>>
    /\ fresh = 0
    /\ prev = "none"
    /\ tampered = 0
    /\ batchSize = NoBatchSize
    /\ \/ \E pk \in KeyInputs, m \in Messages, sig \in SigInputs :
              last = [op |-> "args", publicKey |-> pk, message |-> m,
                      sig |-> sig]
       \/ \E priv \in KeyPairs \cup {ShortPrivateKey}, m \in Messages :
              last = [op |-> "keypair", privateKey |-> priv, message |-> m]

\* Verify(publicKey, message, sig)
VerifyCall ==
    /\ last.op = "args"
    /\ last' = [op |-> "Verify", publicKey |-> last.publicKey,
                message |-> last.message, sig |-> last.sig,
                ret |-> Verify(last.publicKey, last.message, last.sig)]
    /\ UNCHANGED <<entries, msgs, fresh, prev, tampered, batchSize>>

\* Sign(privateKey, message)
SignCall ==
    /\ last.op = "keypair"
    /\ last' = [op |-> "Sign", privateKey |-> last.privateKey,
                message |-> last.message,
                ret |-> Sign(last.privateKey, last.message)]
    /\ UNCHANGED <<entries, msgs, fresh, prev, tampered, batchSize>>

\* TestSignVerify: Verify of what Sign returned, for the message signed and
\* for another one
VerifySigned(message) ==
    /\ last.op = "Sign"
    /\ last.ret # Panic
    /\ last' = [op |-> "VerifySigned", privateKey |-> last.privateKey,
                signed |-> last.message, message |-> message,
                sig |-> last.ret,
                ret |-> Verify(Public(last.privateKey), message, last.ret)]
    /\ UNCHANGED <<entries, msgs, fresh, prev, tampered, batchSize>>

NextVerify ==
    \/ VerifyCall
    \/ SignCall
    \/ \E m \in Messages : VerifySigned(m)

SpecVerify == InitVerify /\ [][NextVerify]_vars

\* ================================================================ claims
IsVerifyBatch == last.op = "VerifyBatch"

\* C1: VerifyBatch on a verifier that holds no entries returns false.
C1_EmptyBatchFails ==
    (IsVerifyBatch /\ last.n = 0) => last.ret = FALSE

\* C2: after every VerifyBatch call, whatever it returned, the verifier
\* holds no entries.
C2_ResetAfterVerifyBatch ==
    IsVerifyBatch => Len(entries) = 0

\* C3: a VerifyBatch call that follows an earlier one decides on the entries
\* added since that one alone: when the earlier call returned false and only
\* valid triples were added since, it returns true.
C3_ReuseAfterFailure ==
    [][(/\ last'.op = "VerifyBatch"
        /\ prev = "false"
        /\ fresh > 0
        /\ \A i \in (Len(entries) - fresh + 1) .. Len(entries) : EntryValid(i))
       => last'.ret = TRUE]_vars

\* the format an Add rejects: a key that is not 32 bytes long, a signature
\* that is not 64 bytes long or has one of the top three bits of byte 63 set
BadFormat(publicKey, sig) ==
    \/ publicKey.len # 32
    \/ sig.len # 64
    \/ sig.hi >= 2 ^ (BlockBits - 3)

\* C4: an Add with a key that is not 32 bytes long, a signature that is not
\* 64 bytes long, or a signature with one of the top three bits of byte 63
\* set returns false and leaves the pending entries as they were.
C4_BadFormatAddRejected ==
    [][(last'.op = "Add" /\ BadFormat(last'.publicKey, last'.sig))
       => (last'.ret = FALSE /\ entries' = entries)]_vars

\* an Add of each rejected kind has returned false on a verifier that holds
\* entries
C4_Witness ==
    /\ last.op = "Add"
    /\ last.ret = FALSE
    /\ Len(entries) = MaxEntries
    /\ last.publicKey.len = 32
    /\ last.sig.len = 64
    /\ last.sig.hi >= 2 ^ (BlockBits - 3)

\* C5: Add called with (public key, message, signature) in this order, with
\* a 32-byte key and a 64-byte signature whose top three bits are clear,
\* returns true and appends one entry with the challenge of
\* signature[0:32] || public key || message.
C5_AddInInterfaceOrder ==
    [][\A t \in Signed \cup {SignedLong} :
          Add(t.publicKey, t.message, t.sig)
          => /\ last'.ret = TRUE
             /\ entries' = Append(entries,
                    Ks(t.publicKey, t.sig,
                       Challenge(t.publicKey, t.sig, t.message)))]_vars

\* C6: a VerifyBatch call on a non-empty batch in which every triple added
\* passes Verify returns true, whatever random scalars are drawn.
C6_ValidBatchAccepted ==
    [][(last'.op = "VerifyBatch" /\ Len(entries) > 0 /\ AllValid)
       => last'.ret = TRUE]_vars

\* a full batch of valid triples was verified with distinct non-zero scalars
C6_Witness ==
    /\ IsVerifyBatch
    /\ last.n = MaxEntries
    /\ last.valid
    /\ last.ret = TRUE
    /\ Len(last.zs) = last.n
    /\ \A i \in 1 .. last.n : last.zs[i] # 0
    /\ last.zs[1] # last.zs[2]

\* the equation of one entry with the challenge it stores:
\* 8 * ([s]B - [k]A - R) is the identity
EntryHolds(e) ==
    /\ PointSetBytes(e.signature.lo) # PointErr
    /\ PointSetBytes(e.pubkey.lo) # PointErr
    /\ e.signature.hi < GroupOrder
    /\ (Cofactor * (e.signature.hi * GeneratorPoint
                    + e.k * (CurveOrder - PointSetBytes(e.pubkey.lo))
                    + (CurveOrder - PointSetBytes(e.signature.lo))))
          % CurveOrder = 0

NonCanonicalS(i) == entries[i].signature.hi >= GroupOrder
C8_NonCanonicalRejected ==
    [][/\ \A i \in 1 .. Len(entries) :
              NonCanonicalS(i)
              => ~Verify(entries[i].pubkey, msgs[i], entries[i].signature)
       /\ (last'.op = "VerifyBatch" /\ \E i \in 1 .. Len(entries) :
              NonCanonicalS(i))
          => last'.ret = FALSE]_vars

\* VerifyBatch has rejected a batch holding s + l of a signature that Verify
\* accepts with s
C8_Witness ==
    /\ IsVerifyBatch
    /\ last.ret = FALSE
    /\ \E i \in 1 .. Len(entries) :
           /\ NonCanonicalS(i)
           /\ Verify(entries[i].pubkey, msgs[i],
                     [entries[i].signature EXCEPT !.hi = @ - GroupOrder])
           /\ \A j \in 1 .. Len(entries) : j # i => EntryValid(j)

\* C9: for a key that decodes to A and a signature whose R decodes and
\* whose s is canonical, Verify returns true exactly when
\* 8 * ([s]B - [h]A - R) is the identity, h the challenge of the call.
WellFormed(publicKey, sig) ==
    /\ publicKey.len = 32
    /\ sig.len = 64
    /\ PointSetBytes(publicKey.lo) # PointErr
    /\ PointSetBytes(sig.lo) # PointErr
    /\ sig.hi < GroupOrder
\* [s]B - [h]A - R, as a multiple of the generator of the whole group
Defect(publicKey, message, sig) ==
    (sig.hi * GeneratorPoint
     + Challenge(publicKey, sig, message)
           * (CurveOrder - PointSetBytes(publicKey.lo))
     + (CurveOrder - PointSetBytes(sig.lo))) % CurveOrder
C9_VerifyIsCofactoredEquation ==
    (last.op = "Verify" /\ WellFormed(last.publicKey, last.sig))
    => (last.ret
        <=> (Cofactor * Defect(last.publicKey, last.message, last.sig))
                % CurveOrder = 0)

\* Verify has accepted a signature for which [s]B - [h]A is not R
C9_Witness ==
    /\ last.op = "Verify"
    /\ WellFormed(last.publicKey, last.sig)
    /\ last.sig.hi # 0
    /\ MultByCofactor(PointSetBytes(last.publicKey.lo)) # IdentityPoint
    /\ last.ret = TRUE
    /\ Defect(last.publicKey, last.message, last.sig) # 0

\* C10: Verify accepts what Sign returns, for every key pair and message.
C10_SignVerifyRoundTrip ==
    (last.op = "VerifySigned" /\ last.message = last.signed)
    => last.ret = TRUE

\* a signature with a non-zero s was made and verified
C10_Witness ==
    /\ last.op = "VerifySigned"
    /\ last.message = last.signed
    /\ last.sig.hi # 0
    /\ last.ret = TRUE

\* C11: an entry stored by Add holds its own copy of the key and signature
\* bytes: a write by the caller to a buffer it passed to an Add that
\* returned true leaves the pending entries as they were, and the following
\* VerifyBatch of the valid triples added returns what it would have
\* returned without the write, true.
C11_EntryHoldsOwnCopy ==
    [][/\ last'.op = "WriteBuffer" => entries' = entries
       /\ (last'.op = "VerifyBatch" /\ Len(entries) > 0 /\ tampered # 0)
          => last'.ret = TRUE]_vars

\* the inputs Verify is to reject as malformed: a key that is not 32 bytes
\* long, a signature that is not 64 bytes long or has one of the top three
\* bits of byte 63 set, key or R bytes that are no encoding of a point
NoPoint(x) == x >= CurveOrder + NonCanonical
MalformedArgs(publicKey, sig) ==
    \/ publicKey.len # 32
    \/ sig.len # 64
    \/ sig.hi >= 2 ^ (BlockBits - 3)
    \/ NoPoint(publicKey.lo)
    \/ NoPoint(sig.lo)

\* C12: Verify returns the value false, and nothing else, for every
\* malformed input: a key of a length other than 32 (0 included), a
\* signature of a length other than 64 (0 included), a signature with one
\* of the top three bits of byte 63 set, key or R bytes that decode to no
\* point.
C12_MalformedVerifyFalse ==
    (last.op = "Verify" /\ MalformedArgs(last.publicKey, last.sig))
    => last.ret = FALSE

\* Verify has returned false for a 64-byte signature with a canonical s and
\* a key that decodes, whose R bytes decode to no point
C12_Witness ==
    /\ last.op = "Verify"
    /\ last.publicKey.len = 32
    /\ ~NoPoint(last.publicKey.lo)
    /\ last.sig.len = 64
    /\ last.sig.hi < GroupOrder
    /\ NoPoint(last.sig.lo)
    /\ last.ret = FALSE

\* a pending entry that fails to decode: R or key bytes that are no
\* encoding of a point, or an s that is not below the group order
DecodeFails(e) ==
    \/ NoPoint(e.signature.lo)
    \/ NoPoint(e.pubkey.lo)
    \/ e.signature.hi >= GroupOrder

\* C13: a VerifyBatch call on a batch in which some entry, at whatever
\* position and next to whatever other entries, has R or key bytes that
\* decode to no point or a non-canonical s, returns false.
C13_DecodeFailureRejectsBatch ==
    [][(last'.op = "VerifyBatch"
        /\ \E i \in 1 .. Len(entries) : DecodeFails(entries[i]))
       => last'.ret = FALSE]_vars

\* VerifyBatch has returned false for a batch whose last entry has a key
\* that is no point and whose entries before it are all valid
C13_Witness ==
    /\ IsVerifyBatch
    /\ last.ret = FALSE
    /\ Len(entries) >= 2
    /\ NoPoint(entries[Len(entries)].pubkey.lo)
    /\ \A j \in 1 .. (Len(entries) - 1) : EntryValid(j)

\* arguments of the right format that fail to decode: key or R bytes that
\* are no encoding of a point, or an s that is not below the group order
DecodeFailsArgs(publicKey, sig) ==
    \/ NoPoint(publicKey.lo)
    \/ NoPoint(sig.lo)
    \/ sig.hi >= GroupOrder

\* C14 as stated: an Add with a key or signature of the wrong length, with
\* high bits set in byte 63, with key or R bytes that decode to no point, or
\* with a non-canonical s returns false and leaves the entries as they were.
C14_MalformedAddRejected ==
    [][(last'.op = "Add"
        /\ (\/ BadFormat(last'.publicKey, last'.sig)
            \/ DecodeFailsArgs(last'.publicKey, last'.sig)))
       => (last'.ret = FALSE /\ entries' = entries)]_vars

\* C14 amended: only the length and high-bit checks surface as false from
\* Add; an Add of the right format whose key or R bytes decode to no point,
\* or whose s is non-canonical, returns true and appends the entry.
C14_AddChecksFormatOnly ==
    [][/\ (last'.op = "Add" /\ BadFormat(last'.publicKey, last'.sig))
          => (last'.ret = FALSE /\ entries' = entries)
       /\ (last'.op = "Add"
           /\ ~BadFormat(last'.publicKey, last'.sig)
           /\ DecodeFailsArgs(last'.publicKey, last'.sig))
          => /\ last'.ret = TRUE
             /\ entries' = Append(entries,
                    Ks(last'.publicKey, last'.sig,
                       Challenge(last'.publicKey, last'.sig,
                                 last'.message)))]_vars

\* an Add with a non-canonical s whose top three bits are clear has
\* returned true and its entry is pending
C14_Witness ==
    /\ last.op = "Add"
    /\ last.ret = TRUE
    /\ last.sig.hi >= GroupOrder
    /\ last.sig.hi < 2 ^ (BlockBits - 3)
    /\ Len(entries) > 0
    /\ entries[Len(entries)].signature = last.sig

C16_OrderIndependent ==
    last.op = "VerifyOrders" => last.ret = last.permuted

\* two different triples, one valid and one not, were added in both orders
\* with different non-zero scalars
C16_Witness ==
    /\ last.op = "VerifyOrders"
    /\ Len(last.triples) >= 2
    /\ last.perm[1] # 1
    /\ last.triples[1] = Base
    /\ last.triples[2] \in Invalid
    /\ last.zs[1] # 0
    /\ last.zs[2] # 0
    /\ last.zs[1] # last.zs[2]
    /\ last.ret = FALSE
    /\ last.permuted = FALSE

=============================================================================
